---- MODULE Spec2Model ----
(***************************************************************************)
(* A model of PyNCulture's shape.py: the Shape / Area / _PDict classes,    *)
(* the partition of a Shape into areas (add_area) and the seeding of       *)
(* neuron positions (seed_neurons).                                        *)
(*                                                                         *)
(* Geometry.  shapely is outside the repository; its polygons are modelled *)
(* on a grid.  A polygon is a set of unit cells <<i, j>>, cell <<i, j>>    *)
(* being the closed square [i, i+1] x [j, j+1]; a disk or an ellipse is    *)
(* given by its centre and radii.  Lengths (bounds, soma radius, min_x,    *)
(* max_x) are whole numbers of cell sides.  Points are given in half cell  *)
(* sides, <<2x, 2y>>, so that cell centres are points of the model.        *)
(*                                                                         *)
(* Python values.  None for an optional argument is the empty tuple <<>>,  *)
(* a given value v is <<v>>.  A dict is a function on the set of its keys. *)
(* An exception is recorded by its class name in err ("none": the call     *)
(* returned).                                                              *)
(*                                                                         *)
(* Random draws.  numpy's uniform is a choice among the centres of the     *)
(* cells of the interval; every draw of seed_neurons is a nondeterministic *)
(* choice.  The rejection loop of seed_neurons is followed candidate by    *)
(* candidate.                                                              *)
(*                                                                         *)
(* Specifications.  Spec: the Shape objects and add_area.  SeedSpec: one   *)
(* seed_neurons call on a Shape.  PDictSpec: a _PDict under reads and      *)
(* writes.  PolySpec: Shape.from_polygon as a function of its arguments.   *)
(***************************************************************************)
EXTENDS Integers, Sequences, FiniteSets, TLC

VARIABLES
    shape,      \* the Shape object of the run
    graph,      \* the graph that may be its parent
    op,         \* the last call on the Shape
    err,        \* the exception that call raised, "none" if it returned
    requested,  \* the polygons passed to add_area so far
    pc,         \* "idle", or "sampling" inside the loop of seed_neurons
    seed,       \* the arguments and locals of the seed_neurons call
    points,     \* the list points of seed_neurons
    ret,        \* the positions seed_neurons returned
    pdict,      \* a _PDict
    pcall,      \* the last call on the _PDict
    poly,       \* a call of Shape.from_polygon and its result
    view        \* the dict a caller got from shape.areas

vars == <<shape, graph, op, err, requested, pc, seed, points, ret, pdict, pcall, poly, view>>
seedVars == <<pc, seed, points, ret>>
otherVars == <<pdict, pcall, poly, view>>

-----------------------------------------------------------------------------
(* Bounds of the model *)

\* bounds and min_x / max_x arguments range over 0..MaxCoord
MaxCoord == 3
\* add_area requests recorded in a run
MaxAreas == 2
\* neurons asked for, and nodes of the parent graph
MaxNeurons == 2
\* soma_radius ranges over 0..MaxSoma
MaxSoma == 2

-----------------------------------------------------------------------------
(* Python values *)

None == <<>>
Opt(S) == {None} \cup {<<v>> : v \in S}
Val(o) == o[1]

\* floats: a number n, NaN, or (for the result of dict.get) None
Num(n) == [tag |-> "num", v |-> n]
NaN == [tag |-> "nan", v |-> 0]
PyNone == [tag |-> "none", v |-> 0]

Keys == {"speed", "affinity"}
Floats == {Num(n) : n \in {0 - 1, 0, 1, 2}} \cup {NaN}
\* the dicts a caller may pass as properties / default_properties
Dicts == UNION {[D -> Floats] : D \in SUBSET Keys}

Units == {"um", "mm"}

Min(S) == CHOOSE x \in S : \A y \in S : x <= y
Max(S) == CHOOSE x \in S : \A y \in S : x >= y
Abs(n) == IF n < 0 THEN 0 - n ELSE n

RECURSIVE Gcd(_, _)
Gcd(a, b) == IF b = 0 THEN a ELSE Gcd(b, a % b)

-----------------------------------------------------------------------------
(* shapely geometry on the grid *)

Block(x0, y0, x1, y1) == {<<i, j>> : i \in x0..(x1 - 1), j \in y0..(y1 - 1)}

\* A geometry: a set of cells, or an ellipse with centre c and radii rad (both
\* in half cell sides), scaled by num/den about the centre of its bounding box.
CellsGeom(S) == [kind |-> "cells", cells |-> S, c |-> <<0, 0>>, rad |-> <<0, 0>>, num |-> 1, den |-> 1]
EllGeom(c, rad) == [kind |-> "ell", cells |-> {}, c |-> c, rad |-> rad, num |-> 1, den |-> 1]
EmptyGeom == CellsGeom({})

\* Polygon.bounds of an unscaled geometry: <<minx, miny, maxx, maxy>>
bounds(g) ==
    IF g.kind = "cells"
    THEN <<Min({c[1] : c \in g.cells}), Min({c[2] : c \in g.cells}),
           Max({c[1] : c \in g.cells}) + 1, Max({c[2] : c \in g.cells}) + 1>>
    ELSE <<(g.c[1] - g.rad[1]) \div 2, (g.c[2] - g.rad[2]) \div 2,
           (g.c[1] + g.rad[1]) \div 2, (g.c[2] + g.rad[2]) \div 2>>

\* shapely.affinity.scale(g, f, f) with f = num/den and the default origin,
\* the centre of the bounding box; the factor is kept in lowest terms.
scale(g, num, den) ==
    LET n == g.num * num
        d == g.den * den
        k == Gcd(Abs(n), Abs(d))
    IN  IF n = 0 THEN [g EXCEPT !.num = 0, !.den = 1]
        ELSE [g EXCEPT !.num = n \div k, !.den = d \div k]

\* The horizontal extent of a geometry, scaling included, as the pair
\* <<leftmost, rightmost>> multiplied by 2 * den (so that it is integral).
Extent2d(g) ==
    LET b == bounds([g EXCEPT !.num = 1, !.den = 1])
        mid2 == b[1] + b[3]
        w == b[3] - b[1]
    IN  <<mid2 * g.den - w * Abs(g.num), mid2 * g.den + w * Abs(g.num)>>

-----------------------------------------------------------------------------
(* _PDict and Area *)

\* _PDict(d): dict.__init__ copies the items of d (it does not go through
\* __setitem__)
PDict(d) == d

\* the value of a call that returns nothing, as an entry of _areas
NoneArea == [none |-> TRUE, geom |-> EmptyGeom, height |-> 0, name |-> "", prop |-> <<>>, unit |-> ""]

\* Area.from_shape: obj is built and annotated, and the function ends
\* without a return statement, so the call evaluates to None.
from_shape(shp, height, name, properties, unit) ==
    LET obj == [none |-> FALSE, geom |-> scale(shp, 1, 1), height |-> height, name |-> name,
                prop |-> PDict(IF properties = None THEN <<>> ELSE Val(properties)), unit |-> unit]
    IN  NoneArea

-----------------------------------------------------------------------------
(* Shape and its constructors *)

\* A Shape object.  parent is "None", "proxy" (a weakref.proxy of the graph)
\* or "strong" (the graph itself).  radius / radii are in half cell sides.
NoShape == [built |-> FALSE, geom |-> EmptyGeom, geom_type |-> "", unit |-> "", parent |-> "None", areas |-> <<>>, radii |-> <<0, 0>>]

\* Shape.__init__(shell, holes, unit, parent, default_properties)
Shape__init__(shell, unit, parent, default_properties) ==
    [built |-> TRUE,
     geom |-> CellsGeom(shell),
     geom_type |-> "Polygon",
     unit |-> unit,
     parent |-> IF parent # None THEN "proxy" ELSE "None",
     areas |-> ("default_area" :> from_shape(CellsGeom(shell), 0, "default_area", default_properties, unit)),
     radii |-> <<0, 0>>]

\* the scaling factor of from_polygon, as <<numerator, denominator>>
scaling(polygon, min_x, max_x) ==
    IF min_x # None /\ max_x # None
    THEN LET b == bounds(polygon)
         IN  <<Val(max_x) - Val(min_x), b[3] - b[1]>>
    ELSE <<1, 1>>

\* Shape.from_polygon(polygon, min_x, max_x, unit, parent, default_properties)
\* for a polygon that passes the isinstance assertion
from_polygon(polygon, min_x, max_x, unit, parent, default_properties) ==
    LET s == scaling(polygon, min_x, max_x)
        p2 == scale(polygon, s[1], s[2])
    IN  [built |-> TRUE,
         geom |-> p2,
         geom_type |-> "Polygon",
         unit |-> unit,
         parent |-> IF parent # None THEN "strong" ELSE "None",
         areas |-> ("default_area" :> from_shape(p2, 0, "default_area", default_properties, "um")),
         radii |-> <<0, 0>>]

\* Shape.rectangle(height, width, centroid, ...): the corner points are
\* centroid +- (width/2, height/2); centroid is in half cell sides.
rectangle(height, width, centroid, unit, parent, default_properties) ==
    LET x0 == (centroid[1] - width) \div 2
        y0 == (centroid[2] - height) \div 2
        s == Shape__init__(Block(x0, y0, x0 + width, y0 + height), unit, parent, default_properties)
    IN  [s EXCEPT !.geom_type = "Rectangle"]

\* Shape.disk(radius, centroid, ...); centroid is in half cell sides.
disk(radius, centroid, unit, parent, default_properties) ==
    LET minx == <<(centroid[1] - 2 * radius) \div 2>>
        maxx == <<(centroid[1] + 2 * radius) \div 2>>
        d == from_polygon(EllGeom(centroid, <<2 * radius, 2 * radius>>), minx, maxx, unit, parent, default_properties)
    IN  [d EXCEPT !.geom_type = "Disk", !.radii = <<2 * radius, 2 * radius>>]

\* Shape.ellipse(radii, centroid, ...); radii and centroid in half cell sides.
ellipse(radii, centroid, unit, parent, default_properties) ==
    LET minx == <<(centroid[1] - radii[1]) \div 2>>
        maxx == <<(centroid[1] + radii[1]) \div 2>>
        e == from_polygon(EllGeom(centroid, radii), minx, maxx, unit, parent, default_properties)
    IN  [e EXCEPT !.geom_type = "Ellipse", !.radii = radii]

-----------------------------------------------------------------------------
(* Masks, erosion and containment on the grid *)

\* the points of the model, in half cell sides
Lattice == {<<x, y>> : x \in 0..(2 * MaxCoord), y \in 0..(2 * MaxCoord)}

\* Polygon([(min_x, min_y), (min_x, max_y), (max_x, max_y), (max_x, min_y)]):
\* the rectangle between the corners, in whatever order they come
NormBox(box) == <<Min({box[1], box[3]}), Min({box[2], box[4]}), Max({box[1], box[3]}), Max({box[2], box[4]})>>

\* cell c lies in the rectangle nb
InBox(c, nb) == nb[1] <= c[1] /\ c[1] < nb[3] /\ nb[2] <= c[2] /\ c[2] < nb[4]

Gap(q, lo, hi) == IF q < lo THEN lo - q ELSE IF q > hi THEN q - hi ELSE 0

\* the squared distance from the point Q to the cell c; Q is in 1/(2k) cell
\* sides (k = 1: half cell sides)
Dist2(Q, c, k) ==
    LET dx == Gap(Q[1], 2 * k * c[1], 2 * k * (c[1] + 1))
        dy == Gap(Q[2], 2 * k * c[2], 2 * k * (c[2] + 1))
    IN  dx * dx + dy * dy

\* self.intersection(container), container the rectangle nb: the cells that
\* are not in it.  The shapes lie within [0, MaxCoord] x [0, MaxCoord]; the
\* cells around that square are the nearest ones outside for every point of
\* it, whatever r.
Outside(g, nb, r) ==
    {c \in Block(0 - 1, 0 - 1, MaxCoord + 1, MaxCoord + 1) : c \notin g.cells \/ ~InBox(c, nb)}

\* Q is an interior point of self.intersection(container).buffer(-r): it is
\* farther than r from everything outside the mask, out being the cells
\* outside it.  For a disk the mask is the disk of radius R - r within the
\* rectangle shrunk by r.
InErodedOf(g, nb, r, out, Q, k) ==
    IF g.kind = "cells"
    THEN /\ Q[1] \in 0..(2 * k * MaxCoord)
         /\ Q[2] \in 0..(2 * k * MaxCoord)
         /\ \A c \in out : Dist2(Q, c, k) > 4 * k * k * r * r
    ELSE LET rho == g.rad[1] - 2 * r
             dx == Q[1] - k * g.c[1]
             dy == Q[2] - k * g.c[2]
         IN  /\ rho > 0
             /\ dx * dx + dy * dy < k * k * rho * rho
             /\ 2 * k * (nb[1] + r) < Q[1] /\ Q[1] < 2 * k * (nb[3] - r)
             /\ 2 * k * (nb[2] + r) < Q[2] /\ Q[2] < 2 * k * (nb[4] - r)

InEroded(g, nb, r, Q, k) == InErodedOf(g, nb, r, Outside(g, nb, r), Q, k)

\* the points of S that can be reached from R by steps of half a cell side
RECURSIVE Reach(_, _)
Reach(S, R) ==
    LET N == {p \in S \ R : \E q \in R : Abs(p[1] - q[1]) + Abs(p[2] - q[2]) = 1}
    IN  IF N = {} THEN R ELSE Reach(S, R \cup N)

\* self.intersection(container).buffer(-r) as shapely hands it on: its class
\* ("empty" for POLYGON EMPTY) and its bounds, read off its interior points
Eroded(g, nb, r) ==
    LET out == Outside(g, nb, r)
        I == {p \in Lattice : InErodedOf(g, nb, r, out, p, 1)}
    IN  IF I = {} THEN [class |-> "empty", b |-> <<0, 0, 0, 0>>]
        ELSE [class |-> IF Reach(I, {CHOOSE p \in I : TRUE}) = I THEN "Polygon" ELSE "MultiPolygon",
              b |-> <<(Min({p[1] : p \in I}) - 1) \div 2, (Min({p[2] : p \in I}) - 1) \div 2,
                      (Max({p[1] : p \in I}) + 1) \div 2, (Max({p[2] : p \in I}) + 1) \div 2>>]

-----------------------------------------------------------------------------
(* The callers' inputs *)

\* the polygons a caller builds shapes from: a 3 x 3 square, an L and a U
\* (both non-convex)
Square == Block(0, 0, 3, 3)
LShape == Block(0, 0, 3, 1) \cup Block(0, 0, 1, 3)
UShape == Block(0, 0, 3, 1) \cup {<<0, 1>>, <<2, 1>>}
Shells == {Square, LShape, UShape}

\* the default_properties / properties arguments
PropArgs == Opt({<<>>, ("speed" :> Num(2)), ("speed" :> Num(0 - 1))})
\* the parent argument: None or the graph
ParentArgs == Opt({"G"})
CoordArgs == Opt(0..MaxCoord)

\* the polygons passed to add_area
AreaArgs == {Block(0, 0, 2, 2), Block(1, 1, 3, 3), Block(2, 0, 3, 1)}

-----------------------------------------------------------------------------
(* Calling a method: binding the arguments, resolving names *)

\* the names a function body can resolve besides its own parameters and
\* locals: the module's imports and classes
ModuleGlobals == {"weakref", "deepcopy", "shapely", "loads", "scale", "Point", "Polygon", "np", "uniform", "pnc", "conversion_magnitude", "Area", "Shape", "_PDict"}

\* def add_area(area, height=None, name=None, properties=None)
add_area_params == <<"area", "height", "name", "properties">>

\* The outcome of shape.add_area(a, **kw), kw the set of keyword names: the
\* exception raised, or "none".  The receiver and a are bound, in this
\* order, to the first two parameters; a keyword naming one of them is a
\* TypeError.  Every statement of the body (the first one, line 354 when
\* name is None, line 357 otherwise) reads the name self, which is neither
\* a parameter nor a global of the module.
add_area(kw) ==
    LET positional == 2
        bound == {add_area_params[i] : i \in 1..positional}
        scope == {add_area_params[i] : i \in 1..Len(add_area_params)} \cup ModuleGlobals
    IN  IF kw \cap bound # {} THEN "TypeError"
        ELSE IF "self" \notin scope THEN "NameError"
        ELSE "none"

-----------------------------------------------------------------------------
(* The specification of the Shape objects and their partition *)

Constructors == {"Shape", "from_polygon", "rectangle", "disk", "ellipse"}

\* A graph stays alive while the caller holds it or a Shape refers to it
\* other than through a weak proxy.
GraphAfter(s) == [graph EXCEPT !.alive = graph.alive /\ (graph.held \/ s.parent = "strong")]

\* A run follows one Shape object from its construction on.
Built(name, s, dp) ==
    /\ ~shape.built
    /\ pc = "idle"
    /\ shape' = s
    /\ graph' = GraphAfter(s)
    /\ op' = [name |-> name, dprops |-> dp]
    /\ err' = "none"
    /\ requested' = <<>>
    /\ UNCHANGED <<seedVars, otherVars>>

\* the variables of the seeding, of the _PDict and of from_polygon before any
\* call
NoSeed == [neurons |-> None, nb |-> None, count |-> 0, container |-> FALSE, soma_radius |-> 0, box |-> <<0, 0, 0, 0>>, path |-> "", num |-> 1, den |-> 1, centre |-> <<0, 0>>, batch |-> 0, exp |-> 0]
NoCall == [op |-> "none", key |-> "", value |-> PyNone, ret |-> PyNone, err |-> "none"]
NoPoly == [called |-> FALSE, polygon |-> EmptyGeom, min_x |-> None, max_x |-> None, result |-> EmptyGeom]
NoView == [taken |-> FALSE, ref |-> "copy", d |-> <<>>]

InitShape ==
    /\ shape = NoShape
    /\ graph = [alive |-> TRUE, held |-> TRUE]
    /\ op = [name |-> "none", dprops |-> None]
    /\ err = "none"
    /\ requested = <<>>
    /\ pc = "idle"
    /\ seed = NoSeed
    /\ points = <<>>
    /\ ret = <<>>
    /\ view = NoView

Init ==
    /\ InitShape
    /\ pdict = <<>>
    /\ pcall = NoCall
    /\ poly = NoPoly

NewShape ==
    \E shell \in Shells, unit \in Units, parent \in ParentArgs, dp \in PropArgs :
        /\ parent # None => graph.alive
        /\ Built("Shape", Shape__init__(shell, unit, parent, dp), dp)

FromPolygon ==
    \E shell \in Shells, min_x \in CoordArgs, max_x \in CoordArgs, unit \in Units, parent \in ParentArgs, dp \in PropArgs :
        /\ parent # None => graph.alive
        /\ Built("from_polygon", from_polygon(CellsGeom(shell), min_x, max_x, unit, parent, dp), dp)

Rectangle ==
    \E unit \in Units, parent \in ParentArgs, dp \in PropArgs :
        /\ parent # None => graph.alive
        /\ Built("rectangle", rectangle(2, 3, <<3, 2>>, unit, parent, dp), dp)

Disk ==
    \E unit \in Units, parent \in ParentArgs, dp \in PropArgs :
        /\ parent # None => graph.alive
        /\ Built("disk", disk(1, <<4, 4>>, unit, parent, dp), dp)

Ellipse ==
    \E unit \in Units, parent \in ParentArgs, dp \in PropArgs :
        /\ parent # None => graph.alive
        /\ Built("ellipse", ellipse(<<3, 2>>, <<3, 2>>, unit, parent, dp), dp)

\* Shape.set_parent(parent)
SetParent ==
    \E parent \in ParentArgs :
        /\ shape.built
        /\ pc = "idle"
        /\ parent # None => graph.alive
        /\ shape' = [shape EXCEPT !.parent = IF parent # None THEN "proxy" ELSE "None"]
        /\ graph' = GraphAfter(shape')
        /\ op' = [name |-> "set_parent", dprops |-> None]
        /\ err' = "none"
        /\ UNCHANGED <<requested, seedVars, otherVars>>

\* the caller drops its own reference to the graph
DelGraph ==
    /\ graph.held
    /\ pc = "idle"
    /\ graph' = [held |-> FALSE, alive |-> shape.built /\ shape.parent = "strong"]
    /\ op' = [name |-> "del", dprops |-> None]
    /\ err' = "none"
    /\ UNCHANGED <<shape, requested, seedVars, otherVars>>

\* shape.add_area(area, **kw): no path of the call reaches an assignment to
\* self._areas.  requested records the polygons the caller asked to add.
AddArea ==
    \E area \in AreaArgs, kw \in SUBSET {"height", "name", "properties"} :
        /\ shape.built
        /\ Len(requested) < MaxAreas
        /\ err' = add_area(kw)
        /\ requested' = Append(requested, area)
        /\ op' = [name |-> "add_area", dprops |-> None]
        /\ UNCHANGED <<shape, graph, seedVars, otherVars>>

Next ==
    \/ NewShape
    \/ FromPolygon
    \/ Rectangle
    \/ Disk
    \/ Ellipse
    \/ SetParent
    \/ DelGraph
    \/ AddArea

Spec == Init /\ [][Next]_vars

-----------------------------------------------------------------------------
(* The partition: claims C1 - C3 *)

AreaNames == DOMAIN shape.areas

\* two polygons share a region of positive area
PositiveOverlap(g, h) == g.kind = "cells" /\ h.kind = "cells" /\ g.cells \cap h.cells # {}

\* C1 (partition invariant): in every state of a constructed Shape, so after
\* any sequence of add_area calls, every entry of the partition is an area,
\* no two areas share a region of positive area, and the union of the areas,
\* "default_area" included, is the geometry of the Shape.
C1_PartitionInvariant ==
    shape.built =>
        /\ \A k \in AreaNames : ~shape.areas[k].none
        /\ \A k1, k2 \in AreaNames : k1 # k2 => ~PositiveOverlap(shape.areas[k1].geom, shape.areas[k2].geom)
        /\ IF AreaNames = {"default_area"}
           THEN shape.areas["default_area"].geom = shape.geom
           ELSE /\ shape.geom.kind = "cells"
                /\ UNION {shape.areas[k].geom.cells : k \in AreaNames} = shape.geom.cells

\* C2 (default area at construction): right after any constructor called
\* without default properties, the partition has exactly the key
\* "default_area", and its entry is an Area with the geometry of the Shape,
\* height 0 and an empty property map.
C2_DefaultAreaAtConstruction ==
    (op.name \in Constructors /\ op.dprops = None) =>
        /\ AreaNames = {"default_area"}
        /\ ~shape.areas["default_area"].none
        /\ shape.areas["default_area"].geom = shape.geom
        /\ shape.areas["default_area"].height = 0
        /\ shape.areas["default_area"].prop = <<>>

\* the candidate of an add_area request: the intersection of the Shape with
\* the polygon passed
Cand(area) == shape.geom.cells \cap area

\* the earlier requests that met no request before them: by the claim these
\* were added, and are the existing non-default areas
Existing(req) == {i \in 1..(Len(req) - 1) : \A j \in 1..(i - 1) : Cand(req[i]) \cap Cand(req[j]) = {}}

-----------------------------------------------------------------------------
(* _PDict: the property map of an Area *)

\* a __getitem__ that forgets the default (the claim's mutant)
PDict__getitem__NoDefault(d, key) == IF key \in DOMAIN d THEN d[key] ELSE PyNone

\* _PDict.__getitem__(key)
PDict__getitem__(d, key) == IF key \in DOMAIN d THEN d[key] ELSE Num(1)

\* dict.get(key), which _PDict inherits: the default is None
PDict_get(d, key) == IF key \in DOMAIN d THEN d[key] ELSE PyNone

\* the assertion of _PDict.__setitem__: value >= 0 or np.isnan(value)
ValueOk(value) == (value.tag = "num" /\ value.v >= 0) \/ value.tag = "nan"

\* _PDict.__setitem__(key, value): the outcome and the dict afterwards
PDict__setitem__(d, key, value) ==
    IF ValueOk(value)
    THEN [err |-> "none", d |-> (key :> value) @@ d]
    ELSE [err |-> "AssertionError", d |-> d]

\* the _PDict of an Area built with the given properties (Area.__init__,
\* Area.from_shape)
InitPDict ==
    /\ \E properties \in Opt(Dicts) : pdict = PDict(IF properties = None THEN <<>> ELSE Val(properties))
    /\ pcall = NoCall
    /\ InitShape
    /\ poly = NoPoly

GetItem ==
    \E key \in Keys :
        /\ pcall' = [op |-> "getitem", key |-> key, value |-> PyNone, ret |-> PDict__getitem__(pdict, key), err |-> "none"]
        /\ UNCHANGED <<pdict, poly, view, shape, graph, op, err, requested, seedVars>>

Get ==
    \E key \in Keys :
        /\ pcall' = [op |-> "get", key |-> key, value |-> PyNone, ret |-> PDict_get(pdict, key), err |-> "none"]
        /\ UNCHANGED <<pdict, poly, view, shape, graph, op, err, requested, seedVars>>

SetItem ==
    \E key \in Keys, value \in Floats :
        LET r == PDict__setitem__(pdict, key, value)
        IN  /\ pdict' = r.d
            /\ pcall' = [op |-> "setitem", key |-> key, value |-> value, ret |-> PyNone, err |-> r.err]
            /\ UNCHANGED <<poly, view, shape, graph, op, err, requested, seedVars>>

NextPDict ==
    \/ GetItem
    \/ Get
    \/ SetItem

PDictSpec == InitPDict /\ [][NextPDict]_vars

\* the steps that are a read / a write of the _PDict
ReadStep(ops) == pcall' # pcall /\ pcall'.op \in ops
WriteStep == <<pdict, pcall>>' # <<pdict, pcall>> /\ pcall'.op = "setitem"
Negative(value) == value.tag = "num" /\ value.v < 0

\* what a write must do
WriteOk ==
    WriteStep =>
        IF Negative(pcall'.value)
        THEN pcall'.err # "none" /\ pdict' = pdict
        ELSE /\ pcall'.err = "none"
             /\ DOMAIN pdict' = DOMAIN pdict \cup {pcall'.key}
             /\ pdict'[pcall'.key] = pcall'.value
             /\ \A k \in DOMAIN pdict \ {pcall'.key} : pdict'[k] = pdict[k]

\* what a read through one of ops must do: the map is unchanged, a present key
\* yields its value, an absent one yields 1.0
ReadOk(ops) ==
    ReadStep(ops) =>
        /\ pdict' = pdict
        /\ pcall'.err = "none"
        /\ pcall'.ret = IF pcall'.key \in DOMAIN pdict THEN pdict[pcall'.key] ELSE Num(1)

\* C9 as claimed (read / write semantics of the property map): reading an
\* absent key by get or by indexing yields 1.0 and leaves the map unchanged,
\* reading a present key yields its value; setting a negative value fails
\* and leaves the map unchanged, setting a non-negative value or NaN stores it.
C9_ReadWrite == [][ReadOk({"getitem", "get"}) /\ WriteOk]_vars

\* C9 as amended: the same, with the default 1.0 for reads by indexing only;
\* get (dict.get, not overridden) yields None for an absent key.
C9_ReadWriteIndexing ==
    [][/\ ReadOk({"getitem"})
       /\ WriteOk
       /\ ReadStep({"get"}) =>
             /\ pdict' = pdict
             /\ pcall'.ret = IF pcall'.key \in DOMAIN pdict THEN pdict[pcall'.key] ELSE PyNone]_vars

\* C9, witness: an absent key was read by indexing and gave 1.0, from a map
\* that stores NaN under the other key
C9_Witness ==
    /\ pcall.op = "getitem"
    /\ pcall.key \notin DOMAIN pdict
    /\ pcall.ret = Num(1)
    /\ \E k \in DOMAIN pdict : pdict[k] = NaN

-----------------------------------------------------------------------------
(* Shape.from_polygon as a function of the polygon, min_x and max_x *)

\* the polygons passed: every block of cells with corners in 0..MaxCoord, the
\* L and the U
PolyArgs == ({Block(x0, y0, x1, y1) : x0 \in 0..MaxCoord, y0 \in {0, 1}, x1 \in 1..MaxCoord, y1 \in {2, 3}} \ {{}}) \cup Shells

InitPoly ==
    /\ poly = NoPoly
    /\ InitShape
    /\ pdict = <<>>
    /\ pcall = NoCall

CallFromPolygon ==
    \E polygon \in PolyArgs, min_x \in CoordArgs, max_x \in CoordArgs, unit \in Units, parent \in ParentArgs :
        /\ ~poly.called
        /\ poly' = [called |-> TRUE, polygon |-> CellsGeom(polygon), min_x |-> min_x, max_x |-> max_x,
                    result |-> from_polygon(CellsGeom(polygon), min_x, max_x, unit, parent, None).geom]
        /\ UNCHANGED <<pdict, pcall, view, shape, graph, op, err, requested, seedVars>>

NextPoly == CallFromPolygon

PolySpec == InitPoly /\ [][NextPoly]_vars

\* C10 (rescaling in from_polygon): when min_x and max_x are both given, the
\* leftmost point of the result is at min_x and the rightmost at max_x
\* (for min_x < max_x), wherever the polygon lies; when either is None the
\* polygon is unchanged.
C10_Rescaling ==
    poly.called =>
        IF poly.min_x # None /\ poly.max_x # None
        THEN Val(poly.min_x) < Val(poly.max_x) =>
             Extent2d(poly.result) = <<2 * poly.result.den * Val(poly.min_x), 2 * poly.result.den * Val(poly.max_x)>>
        ELSE poly.result = poly.polygon

-----------------------------------------------------------------------------
(* seed_neurons *)

\* the arguments of seed_neurons
NeuronArgs == Opt(0..MaxNeurons)
XArgs == Opt({1, MaxCoord})
YminArgs == Opt({1})
YmaxArgs == Opt({1, MaxCoord})
SomaArgs == 0..MaxSoma
\* unit: None or a unit other than the Shape's (the Shape's own unit gives
\* what None gives, line 509)
UnitArgs == Opt(Units \ {"um"})
ContainerArgs == Opt({Block(0, 0, 2, 2)})

\* the power of ten of a unit
UnitExp(u) == IF u = "um" THEN 0 - 6 ELSE 0 - 3

\* conversion_magnitude(unit, self._unit), as a power of ten
conversion_magnitude(target, source) == UnitExp(source) - UnitExp(target)

\* the values uniform(low, high) takes in the model, in half cell sides: the
\* centres of the first, the middle and the last cell between low and high
\* (of every cell, when there are three or fewer).  numpy's uniform returns
\* low + (high - low) * u with u in [0, 1), whatever the order of low and
\* high.
uniform(low, high) ==
    LET first == Min({low, high})
        last == Max({low, high}) - 1
    IN  IF low = high THEN {2 * low}
        ELSE {2 * i + 1 : i \in {first, (first + last) \div 2, last}}

\* the points the disk fast path can give: within sqrt(0.99) * |R - r| of the
\* centre (R in half cell sides)
DiskPoints(c, R, r) ==
    {p \in Lattice : 100 * ((p[1] - c[1]) * (p[1] - c[1]) + (p[2] - c[2]) * (p[2] - c[2])) <= 99 * (R - 2 * r) * (R - 2 * r)}

\* the count if the caller's neurons took precedence over the parent's nodes
seed_count_caller(parent, neurons, nb) == IF neurons # None THEN neurons ELSE nb

\* lines 445-446: the parent's node_nb() replaces neurons
seed_count(parent, neurons, nb) == IF parent # "None" THEN nb ELSE neurons

\* lines 461-465
EffBox(b, xmin, ymin, xmax, ymax) ==
    <<IF xmin = None THEN b[1] ELSE Max({Val(xmin), b[1]}),
      IF ymin = None THEN b[2] ELSE Max({Val(ymin), b[2]}),
      IF xmax = None THEN b[3] ELSE Min({Val(xmax), b[3]}),
      IF ymax = None THEN b[4] ELSE Min({Val(ymax), b[4]})>>

\* what from_polygon raises on POLYGON EMPTY at lines 125-127
\* (polygon.exterior.coords, ext[:, 0], np.min of nothing), according to the
\* shapely release; a rectangle without width or height is not a valid
\* polygon and the intersection may raise already
EmptyErrors(nb) ==
    {"AttributeError", "IndexError", "ValueError(zero-size array)"} \cup (IF nb[1] = nb[3] \/ nb[2] = nb[4] THEN {"TopologicalError"} ELSE {})

\* the geometries of the shapes that are seeded and the rectangles they are
\* intersected with
SeedGeoms == {CellsGeom(sh) : sh \in Shells \cup {Block(0, 0, 3, 2)}} \cup {EllGeom(<<4, 4>>, <<2, 2>>)}
Boxes == {nb \in (0..MaxCoord) \X (0..MaxCoord) \X (0..MaxCoord) \X (0..MaxCoord) : nb[1] < nb[3] /\ nb[2] < nb[4]}

\* Eroded, tabulated; a rectangle without width or height leaves nothing
ErodedOf == [t \in SeedGeoms \X Boxes \X SomaArgs |-> Eroded(t[1], t[2], t[3])] @@ <<>>

\* self.intersection(container).buffer(-soma_radius), container the rectangle
\* of the corners box
ErodedMask(g, box, r) ==
    IF NormBox(box) \in Boxes THEN ErodedOf[<<g, NormBox(box), r>>] ELSE [class |-> "empty", b |-> <<0, 0, 0, 0>>]

\* seed_neurons up to the first draw: the exceptions it can raise at this
\* point (none: {}) and its locals.  nb is what parent.node_nb() returns;
\* exp is the power of ten of lines 509-510.
seed_neurons(s, alive, neurons, nb, container, xmin, ymin, xmax, ymax, soma_radius, unit) ==
    LET n == seed_count(s.parent, neurons, nb)
        b == bounds(s.geom)
        box == EffBox(b, xmin, ymin, xmax, ymax)
        E == ErodedMask(s.geom, box, soma_radius)
        args == [NoSeed EXCEPT !.neurons = neurons, !.nb = nb, !.container = container # None,
                               !.soma_radius = soma_radius,
                               !.exp = IF unit # None /\ Val(unit) # s.unit
                                       THEN conversion_magnitude(Val(unit), s.unit) ELSE 0]
        counted == [args EXCEPT !.count = Val(n)]
    IN  IF s.parent = "proxy" /\ ~alive THEN [errs |-> {"ReferenceError"}, seed |-> args]
        ELSE IF n = None THEN [errs |-> {"ValueError(neurons)"}, seed |-> args]
        ELSE IF container # None
        THEN [errs |-> {"UnboundLocalError"}, seed |-> [counted EXCEPT !.path = "custom"]]
        ELSE IF s.geom_type = "Rectangle"
        THEN [errs |-> {}, seed |-> [counted EXCEPT !.path = "rectangle", !.box = box]]
        ELSE IF s.geom_type = "Disk" /\ <<xmin, ymin, xmax, ymax>> = <<<<b[1]>>, <<b[2]>>, <<b[3]>>, <<b[4]>>>>
        THEN [errs |-> {}, seed |-> [counted EXCEPT !.path = "disk", !.box = box]]
        ELSE IF E.class = "empty"
        THEN [errs |-> EmptyErrors(NormBox(box)), seed |-> [counted EXCEPT !.path = "custom", !.box = box]]
        ELSE IF E.class = "MultiPolygon"
        THEN [errs |-> {"AssertionError"}, seed |-> [counted EXCEPT !.path = "custom", !.box = box]]
        ELSE [errs |-> {},
              seed |-> [counted EXCEPT !.path = "custom", !.box = box,
                                       !.num = (box[3] - soma_radius) - (box[1] + soma_radius),
                                       !.den = E.b[3] - E.b[1],
                                       !.centre = <<E.b[1] + E.b[3], E.b[2] + E.b[4]>>]]

\* seed_area.contains(p), seed_area being the eroded mask scaled by num / den
\* about centre: p is in it when the point that the scaling sends to p is
\* an interior point of the eroded mask
contains(g, sd, p) ==
    LET k == Abs(sd.num)
        sgn == IF sd.num < 0 THEN 0 - 1 ELSE 1
        Q == <<k * sd.centre[1] + sgn * sd.den * (p[1] - sd.centre[1]),
               k * sd.centre[2] + sgn * sd.den * (p[2] - sd.centre[2])>>
    IN  k # 0 /\ InEroded(g, NormBox(sd.box), sd.soma_radius, Q, k)

\* line 501 with the size of the request replaced by neurons
batch_size_all(neurons, have) == neurons

\* line 501: the size of the next request, neurons - len(points)
batch_size(neurons, have) == neurons - have

\* lines 507-512: positions = np.array(points), the conversion to unit and
\* the return; ret holds the positions in the unit of the Shape and sd.exp
\* the power of ten they are multiplied by
Return(sd, positions) ==
    /\ pc' = "idle"
    /\ err' = "none"
    /\ ret' = positions
    /\ points' = <<>>
    /\ seed' = [sd EXCEPT !.batch = 0]

Raise(sd, e) ==
    /\ pc' = "idle"
    /\ err' = e
    /\ ret' = <<>>
    /\ points' = <<>>
    /\ seed' = sd

\* shape.seed_neurons(neurons, container, xmin, xmax, ymin, ymax, soma_radius,
\* unit), up to the loop of the generic path.  The call leaves the Shape and
\* the graph as they were, so a run follows one call.
SeedNeurons ==
    /\ shape.built
    /\ pc = "idle"
    /\ op.name # "seed_neurons"
    /\ \E xmin \in XArgs, xmax \in XArgs, ymin \in YminArgs, ymax \in YmaxArgs, soma_radius \in SomaArgs,
          container \in ContainerArgs, neurons \in NeuronArgs, unit \in UnitArgs,
          nb \in IF shape.parent # "None" /\ graph.alive THEN Opt(0..MaxNeurons) \ {None} ELSE {None} :
            /\ op' = [name |-> "seed_neurons", dprops |-> None]
            /\ LET out == seed_neurons(shape, graph.alive, neurons, nb, container, xmin, ymin, xmax, ymax, soma_radius, unit)
                   sd == out.seed
               IN  IF out.errs # {}
                   THEN \E e \in out.errs : Raise(sd, e)
                   ELSE IF sd.path = "rectangle"
                   THEN \E positions \in [1..sd.count -> uniform(sd.box[1] + soma_radius, sd.box[3] - soma_radius)
                                                         \X uniform(sd.box[2] + soma_radius, sd.box[4] - soma_radius)] :
                            Return(sd, positions)
                   ELSE IF sd.path = "disk"
                   THEN \* self.centroid is a shapely Point: indexing it is a
                        \* TypeError in the shapely releases that give Point no
                        \* __getitem__
                        \/ Raise(sd, "TypeError")
                        \/ \E positions \in [1..sd.count -> DiskPoints(shape.geom.c, shape.radii[1], soma_radius)] :
                               Return(sd, positions)
                   ELSE /\ pc' = "sampling"
                        /\ err' = "none"
                        /\ seed' = sd
                        /\ points' = <<>>
                        /\ ret' = <<>>
            /\ UNCHANGED <<shape, graph, requested, otherVars>>

\* lines 500-502: the loop test passes and the next candidates are requested
SeedBatch ==
    /\ pc = "sampling"
    /\ seed.batch = 0
    /\ Len(points) < seed.count
    /\ seed' = [seed EXCEPT !.batch = batch_size(seed.count, Len(points))]
    /\ UNCHANGED <<shape, graph, op, err, requested, pc, points, ret, otherVars>>

\* lines 503-506: one candidate of the request is tested
SeedCandidate ==
    /\ pc = "sampling"
    /\ seed.batch > 0
    /\ \E x \in uniform(seed.box[1], seed.box[3]), y \in uniform(seed.box[2], seed.box[4]) :
           points' = IF contains(shape.geom, seed, <<x, y>>) THEN Append(points, <<x, y>>) ELSE points
    /\ seed' = [seed EXCEPT !.batch = seed.batch - 1]
    /\ UNCHANGED <<shape, graph, op, err, requested, pc, ret, otherVars>>

\* lines 500, 507-512: the loop test fails and the call returns
SeedReturn ==
    /\ pc = "sampling"
    /\ seed.batch = 0
    /\ Len(points) >= seed.count
    /\ Return(seed, points)
    /\ UNCHANGED <<shape, graph, op, requested, otherVars>>

\* The shapes that are seeded: built without default properties, in um, and
\* not rescaled.
Seedable(s) == s.unit = "um" /\ s.geom.num = s.geom.den

NextSeed ==
    \/ NewShape /\ op'.dprops = None /\ Seedable(shape')
    \/ Rectangle /\ op'.dprops = None /\ Seedable(shape')
    \/ Disk /\ op'.dprops = None /\ Seedable(shape')
    \/ SetParent /\ op.name # "seed_neurons"
    \/ DelGraph /\ op.name # "seed_neurons"
    \/ SeedNeurons
    \/ SeedBatch
    \/ SeedCandidate
    \/ SeedReturn

SeedSpec == Init /\ [][NextSeed]_vars

-----------------------------------------------------------------------------
(* Claims about seed_neurons *)

Returned == op.name = "seed_neurons" /\ pc = "idle" /\ err = "none"

\* C4 (no short result sets): a seed_neurons call that returns, on any path
\* and for any count, returns exactly count positions, each a pair; a call
\* that raises returns nothing, and the loop never holds more than count
\* points.
C4_NoShortResult ==
    /\ Returned => Len(ret) = seed.count /\ \A i \in 1..Len(ret) : Len(ret[i]) = 2
    /\ (op.name = "seed_neurons" /\ err # "none") => ret = <<>>
    /\ pc = "sampling" => ret = <<>> /\ Len(points) <= seed.count

\* C4, witness: the generic path returned two different positions for a
\* count of 2
C4_Witness ==
    /\ Returned
    /\ seed.path = "custom"
    /\ seed.count = 2
    /\ Len(ret) = 2
    /\ ret[1] # ret[2]

\* C5 (seed count determination): with a parent the number of positions is
\* the parent's node count whatever neurons the caller gave, without a parent
\* it is the caller's neurons, and without a parent and with neurons None the
\* call fails with the missing-count ValueError before any position is
\* generated.
C5_SeedCount ==
    op.name = "seed_neurons" =>
        /\ Returned => Len(ret) = IF shape.parent # "None" THEN Val(seed.nb) ELSE Val(seed.neurons)
        /\ pc = "sampling" => Len(points) <= IF shape.parent # "None" THEN Val(seed.nb) ELSE Val(seed.neurons)
        /\ (shape.parent = "None" /\ seed.neurons = None) =>
               /\ pc = "idle"
               /\ err = "ValueError(neurons)"
               /\ seed.path = ""
               /\ ret = <<>>
               /\ points = <<>>

\* C5, witness: a Shape with a parent of nodes was seeded with another
\* neurons and returned one position per node
C5_Witness ==
    /\ Returned
    /\ shape.parent # "None"
    /\ seed.neurons # None
    /\ seed.neurons # seed.nb
    /\ Len(ret) = Val(seed.nb)
    /\ Len(ret) > 0

\* C6 (rectangle fast path): the positions returned for a rectangle without
\* container all lie in [minX + r, maxX - r] x [minY + r, maxY - r], minX ..
\* maxY the effective bounds and r the soma radius (positions in the unit of
\* the Shape).
C6_RectangleBounds ==
    (Returned /\ seed.path = "rectangle" /\ seed.exp = 0) =>
        \A i \in 1..Len(ret) :
            /\ 2 * (seed.box[1] + seed.soma_radius) <= ret[i][1]
            /\ ret[i][1] <= 2 * (seed.box[3] - seed.soma_radius)
            /\ 2 * (seed.box[2] + seed.soma_radius) <= ret[i][2]
            /\ ret[i][2] <= 2 * (seed.box[4] - seed.soma_radius)

\* p is a point of the mask (g within the rectangle nb) eroded by r: it is
\* in the mask and at least r away from everything outside it
InMaskEroded(g, nb, r, p) ==
    IF g.kind = "cells"
    THEN /\ \E c \in g.cells : InBox(c, nb) /\ Dist2(p, c, 1) = 0
         /\ \A c \in Outside(g, nb, r) : Dist2(p, c, 1) >= 4 * r * r
    ELSE LET rho == g.rad[1] - 2 * r
             dx == p[1] - g.c[1]
             dy == p[2] - g.c[2]
         IN  /\ rho >= 0
             /\ dx * dx + dy * dy <= rho * rho
             /\ 2 * (nb[1] + r) <= p[1] /\ p[1] <= 2 * (nb[3] - r)
             /\ 2 * (nb[2] + r) <= p[2] /\ p[2] <= 2 * (nb[4] - r)

\* C7 (generic-path containment): every position the generic path returns is
\* in the intersection of the Shape with the container (the rectangle of the
\* effective bounds when there is none) eroded by the soma radius, and a call
\* with a container does return.
C7_GenericContainment ==
    /\ (Returned /\ seed.path = "custom" /\ seed.exp = 0) =>
           \A i \in 1..Len(ret) : InMaskEroded(shape.geom, NormBox(seed.box), seed.soma_radius, ret[i])
    /\ (op.name = "seed_neurons" /\ seed.container /\ seed.path = "custom" /\ pc = "idle") => err = "none"

\* C8 (invalid seeding boundary): when the Shape within the rectangle of the
\* effective bounds, eroded by the soma radius, is empty or not one polygon,
\* the call fails with the ValueError "Invalid boundary value for seed
\* region" and returns no position.
C8_InvalidBoundary ==
    (/\ op.name = "seed_neurons"
     /\ seed.path # ""
     /\ ~seed.container
     /\ ErodedMask(shape.geom, seed.box, seed.soma_radius).class # "Polygon") =>
        /\ pc = "idle"
        /\ err = "ValueError(Invalid boundary value for seed region)"
        /\ ret = <<>>

-----------------------------------------------------------------------------
(* The areas accessor, and what a caller does with the dict it returns *)

\* Objects are told apart by a reference: the dict a caller holds is either
\* a dict of its own ("copy") or the Shape's _areas itself ("self"); a write
\* through a "self" reference is a write to the Shape.

\* copy.deepcopy of a dict of areas: a new dict with a copy of every entry
deepcopy(d) == [ref |-> "copy", d |-> [k \in DOMAIN d |-> d[k]]]

\* an accessor that hands out the Shape's own dict
areas_alias(s) == [ref |-> "self", d |-> s.areas]

\* Shape.areas
areas(s) == deepcopy(s.areas)

\* Area.__init__: an Area of its own, without parent
Area__init__(shell, unit, height, name, properties) ==
    [none |-> FALSE, geom |-> CellsGeom(shell), height |-> height, name |-> name,
     prop |-> PDict(IF properties = None THEN <<>> ELSE Val(properties)), unit |-> unit]

\* the keys a caller writes and the values it stores under them
ViewKeys == {"default_area", "area1"}
ViewValues == {NoneArea, Area__init__(Block(0, 0, 1, 1), "um", 0, "area", None)}
ViewAttrs == {"height", "name", "properties"}

\* the Shape after a write of d2 through the reference v
Written(v, d2) == IF v.ref = "self" THEN [shape EXCEPT !.areas = d2] ELSE shape

\* a = shape.areas
GetAreas ==
    /\ shape.built /\ pc = "idle" /\ ~view.taken
    /\ view' = [taken |-> TRUE] @@ areas(shape)
    /\ op' = [name |-> "areas", dprops |-> None] /\ err' = "none"
    /\ UNCHANGED <<shape, graph, requested, seedVars, pdict, pcall, poly>>

\* a[k] = v
ViewSetItem ==
    /\ view.taken
    /\ \E k \in ViewKeys, v \in ViewValues :
        LET d2 == [j \in DOMAIN view.d \cup {k} |-> IF j = k THEN v ELSE view.d[j]]
        IN  /\ view' = [view EXCEPT !.d = d2]
            /\ shape' = Written(view, d2)
    /\ op' = [name |-> "a[k] = v", dprops |-> None] /\ err' = "none"
    /\ UNCHANGED <<graph, requested, seedVars, pdict, pcall, poly>>

\* del a[k]
ViewDelItem ==
    /\ view.taken
    /\ \E k \in ViewKeys :
        IF k \in DOMAIN view.d
        THEN LET d2 == [j \in DOMAIN view.d \ {k} |-> view.d[j]]
             IN  /\ view' = [view EXCEPT !.d = d2]
                 /\ shape' = Written(view, d2)
                 /\ err' = "none"
        ELSE /\ err' = "KeyError"
             /\ UNCHANGED <<view, shape>>
    /\ op' = [name |-> "del a[k]", dprops |-> None]
    /\ UNCHANGED <<graph, requested, seedVars, pdict, pcall, poly>>

\* a[k].height = 1, a[k].name = "x", a[k].properties["speed"] = 2: the entry
\* is the object the dict holds, and None has none of these attributes
ViewSetAttr ==
    /\ view.taken
    /\ \E k \in DOMAIN view.d, attr \in ViewAttrs :
        IF view.d[k].none
        THEN /\ err' = "AttributeError"
             /\ UNCHANGED <<view, shape>>
        ELSE LET a2 == CASE attr = "height" -> [view.d[k] EXCEPT !.height = 1]
                         [] attr = "name" -> [view.d[k] EXCEPT !.name = "x"]
                         [] OTHER -> [view.d[k] EXCEPT !.prop =
                                PDict__setitem__(view.d[k].prop, "speed", Num(2)).d]
                 d2 == [view.d EXCEPT ![k] = a2]
             IN  /\ view' = [view EXCEPT !.d = d2]
                 /\ shape' = Written(view, d2)
                 /\ err' = "none"
    /\ op' = [name |-> "a[k].attr = v", dprops |-> None]
    /\ UNCHANGED <<graph, requested, seedVars, pdict, pcall, poly>>

NextAreas ==
    \/ NewShape /\ op'.dprops = None /\ Seedable(shape')
    \/ Rectangle /\ op'.dprops = None /\ Seedable(shape')
    \/ AddArea
    \/ GetAreas \/ ViewSetItem \/ ViewDelItem \/ ViewSetAttr

AreasSpec == Init /\ [][NextAreas]_vars

\* C11 (snapshot semantics of the areas accessor): reading Shape.areas gives
\* a dict equal to the partition and leaves the Shape as it is; a write to
\* the returned dict or to an area in it (a key set or deleted, a height, a
\* name or a property changed) leaves the Shape unchanged; and an add_area
\* call on the Shape leaves a dict obtained earlier unchanged.
C11_AreasSnapshot ==
    [][/\ op'.name = "areas" => (view'.d = shape.areas /\ shape' = shape)
       /\ op'.name \in {"a[k] = v", "del a[k]", "a[k].attr = v"} => shape' = shape
       /\ op'.name = "add_area" => view' = view]_vars

\* C11, witness: the caller removed "default_area" from the dict it got,
\* stored an Area under another key and changed its height, its name and a
\* property, and add_area was called on the Shape afterwards
C11_Witness ==
    /\ view.taken
    /\ DOMAIN view.d = {"area1"}
    /\ ~view.d["area1"].none
    /\ view.d["area1"].height = 1
    /\ view.d["area1"].name = "x"
    /\ DOMAIN view.d["area1"].prop = {"speed"}
    /\ op.name = "add_area"
    /\ DOMAIN shape.areas = {"default_area"}

-----------------------------------------------------------------------------
(* The reference a Shape holds to its parent *)

\* C12 (non-owning parent reference): a Shape never keeps its parent alive:
\* once the caller has dropped its own reference to the graph, the graph of
\* a Shape with a parent is destroyed, and a seed_neurons call made after
\* that fails with an error (the node-count query on the dead parent)
\* instead of returning positions.
C12_NonOwningParent ==
    /\ (shape.built /\ shape.parent # "None" /\ ~graph.held) => ~graph.alive
    /\ (/\ op.name = "seed_neurons"
        /\ pc = "idle"
        /\ shape.parent # "None"
        /\ ~graph.held) => err # "none"

-----------------------------------------------------------------------------
(* The names of the areas *)

\* the entry "default_area" of the partition of s is an area, and its
\* geometry is what the other areas leave of the Shape
DefaultIsRemainder(s) ==
    LET others == DOMAIN s.areas \ {"default_area"}
    IN  /\ "default_area" \in DOMAIN s.areas
        /\ ~s.areas["default_area"].none
        /\ IF others = {}
           THEN s.areas["default_area"].geom = s.geom
           ELSE s.areas["default_area"].geom.cells =
                    s.geom.cells \ UNION {s.areas[k].geom.cells : k \in others}

\* C13 (unique area names, no silent replacement): an add_area call that
\* returns adds exactly one key to the partition and leaves every area added
\* before it as it was, and after every add_area call the key
\* "default_area" is present and denotes the remainder region of the Shape.
C13_UniqueAreaNames ==
    [][/\ (op'.name = "add_area" /\ err' = "none") =>
            /\ Cardinality(DOMAIN shape'.areas) = Cardinality(DOMAIN shape.areas) + 1
            /\ \A k \in DOMAIN shape.areas \ {"default_area"} :
                    k \in DOMAIN shape'.areas /\ shape'.areas[k] = shape.areas[k]
       /\ op'.name = "add_area" => DefaultIsRemainder(shape')]_vars

-----------------------------------------------------------------------------
(* The values of a property map *)

\* C14 (property map value invariant): in every state, construction
\* included, every value stored in the property map of an Area is a
\* non-negative real or NaN.
C14_ValueInvariant ==
    \A k \in DOMAIN pdict : pdict[k] = NaN \/ (pdict[k].tag = "num" /\ pdict[k].v >= 0)

====
